---- MODULE Spec2Model ----
(***************************************************************************)
(* The type-to-schema compiler of ts-json-schema: compile (compiler.ts),   *)
(* the tag helpers of utils.ts, and the single-file variant of the tag     *)
(* applicator kept in index.ts.                                            *)
(*                                                                         *)
(* JavaScript strings are TLA+ strings; a character of a string s is       *)
(* SubSeq(s, i, i).  A JavaScript value that can be stored in a schema     *)
(* (a JSON scalar) is a record with the same five fields whatever its      *)
(* kind, so that any two values can be compared.                           *)
(***************************************************************************)
EXTENDS Integers, Sequences, FiniteSets, TLC

(***************************************************************************)
(* JavaScript values                                                       *)
(***************************************************************************)

\* A finite number is m * 10^x, trailing zeros of m moved into x.
RECURSIVE Normalize(_, _)
Normalize(m, x) ==
    IF m = 0 THEN <<0, 0>>
    ELSE IF m % 10 = 0 THEN Normalize(m \div 10, x + 1)
    ELSE <<m, x>>

JStr(s) == [k |-> "string", s |-> s, m |-> 0, x |-> 0, b |-> FALSE]
JBool(b) == [k |-> "boolean", s |-> "", m |-> 0, x |-> 0, b |-> b]
JNull == [k |-> "null", s |-> "", m |-> 0, x |-> 0, b |-> FALSE]
Number(n) == [k |-> "number", s |-> "", m |-> n[1], x |-> n[2], b |-> FALSE]
JNum(m, x) == Number(Normalize(m, x))
\* NaN, Infinity, -Infinity and -0 are numbers named by s.
JSpecial(name) == [k |-> "number", s |-> name, m |-> 0, x |-> 0, b |-> FALSE]
NaN == JSpecial("NaN")
\* sign * m * 10^x, keeping the sign of a zero
JSigned(neg, m, x) ==
    IF m = 0 THEN (IF neg THEN JSpecial("-0") ELSE JNum(0, 0))
    ELSE JNum(IF neg THEN 0 - m ELSE m, x)

isNaN(v) == v = NaN

(***************************************************************************)
(* Characters and prefixes of strings                                      *)
(***************************************************************************)

CharAt(s, i) == IF i >= 1 /\ i <= Len(s) THEN SubSeq(s, i, i) ELSE ""
From(s, i) == SubSeq(s, i, Len(s))
StartsWith(s, p) == Len(s) >= Len(p) /\ SubSeq(s, 1, Len(p)) = p

DigitChars == <<"0", "1", "2", "3", "4", "5", "6", "7", "8", "9">>
IsDigit(c) == \E i \in 1..10 : DigitChars[i] = c
DigitValue(c) == (CHOOSE i \in 1..10 : DigitChars[i] = c) - 1
\* StrWhiteSpaceChar and JSON's whitespace, as far as texts here hold them
IsWhiteSpace(c) == c \in {" ", "\t", "\n", "\r"}

\* the number of digits of s from position i on
RECURSIVE DigitRun(_, _)
DigitRun(s, i) ==
    IF IsDigit(CharAt(s, i)) THEN 1 + DigitRun(s, i + 1) ELSE 0

\* the number of whitespace characters of s from position i on
RECURSIVE SpaceRun(_, _)
SpaceRun(s, i) ==
    IF IsWhiteSpace(CharAt(s, i)) THEN 1 + SpaceRun(s, i + 1) ELSE 0

\* the number of whitespace characters that end s
RECURSIVE SpaceRunBack(_, _)
SpaceRunBack(s, i) ==
    IF IsWhiteSpace(CharAt(s, i)) THEN 1 + SpaceRunBack(s, i - 1) ELSE 0

\* the value of a string of digits
RECURSIVE DigitsValue(_)
DigitsValue(s) ==
    IF s = "" THEN 0
    ELSE 10 * DigitsValue(SubSeq(s, 1, Len(s) - 1)) + DigitValue(CharAt(s, Len(s)))

TrimStart(s) == From(s, SpaceRun(s, 1) + 1)
TrimEnd(s) == SubSeq(s, 1, Len(s) - SpaceRunBack(s, Len(s)))
Trim(s) == TrimEnd(TrimStart(s))

(***************************************************************************)
(* parseFloat, parseInt(_, 10), JSON.parse.  Each is a chain of steps that *)
(* hand on what they have read: the text r after its sign, the number a of *)
(* its leading digits, the number f of digits after its point.             *)
(***************************************************************************)

Unsigned(t) == IF CharAt(t, 1) \in {"+", "-"} THEN From(t, 2) ELSE t
HasPoint(r, a) == CharAt(r, a + 1) = "."
\* the number of digits after the point that follows the a leading digits
FractionRun(r, a) == IF HasPoint(r, a) THEN DigitRun(r, a + 2) ELSE 0
\* the length of digits, point and digits
MantissaLength(r, a, f) == a + (IF HasPoint(r, a) THEN 1 + f ELSE 0)
\* the digits before and after the point, as one number
Mantissa(r, a, f) == DigitsValue(SubSeq(r, 1, a) \o SubSeq(r, a + 2, a + 1 + f))

\* The exponent part at position p of s, its digits (d of them) starting at q:
\* <<value, length>>, length 0 when there is none (an "e" that no digit
\* follows is not one).
ExponentDigits(s, p, q, d) ==
    IF d = 0 THEN <<0, 0>>
    ELSE <<IF CharAt(s, p + 1) = "-"
           THEN 0 - DigitsValue(SubSeq(s, q, q + d - 1))
           ELSE DigitsValue(SubSeq(s, q, q + d - 1)),
           (q - p) + d>>
ExponentFrom(s, p, q) == ExponentDigits(s, p, q, DigitRun(s, q))
ExponentAt(s, p) ==
    IF CharAt(s, p) \in {"e", "E"}
    THEN ExponentFrom(s, p, IF CharAt(s, p + 1) \in {"+", "-"} THEN p + 2 ELSE p + 1)
    ELSE <<0, 0>>

DecimalValue(neg, r, a, f, e) == JSigned(neg, Mantissa(r, a, f), e[1] - f)

\* parseFloat: leading whitespace skipped, then the longest prefix that is a
\* StrDecimalLiteral; NaN when there is none.
ParseFloatFraction(neg, r, a, f) ==
    IF StartsWith(r, "Infinity")
    THEN JSpecial(IF neg THEN "-Infinity" ELSE "Infinity")
    ELSE IF a = 0 /\ f = 0 THEN NaN
    ELSE DecimalValue(neg, r, a, f, ExponentAt(r, MantissaLength(r, a, f) + 1))
ParseFloatDigits(neg, r, a) == ParseFloatFraction(neg, r, a, FractionRun(r, a))
ParseFloatSigned(neg, r) == ParseFloatDigits(neg, r, DigitRun(r, 1))
ParseFloatTrimmed(t) == ParseFloatSigned(CharAt(t, 1) = "-", Unsigned(t))
parseFloat(text) == ParseFloatTrimmed(TrimStart(text))

\* parseInt(text, 10): leading whitespace skipped, a sign, then the longest
\* prefix of digits; NaN when there is none.
ParseIntDigits(neg, r, a) ==
    IF a = 0 THEN NaN ELSE JSigned(neg, DigitsValue(SubSeq(r, 1, a)), 0)
ParseIntSigned(neg, r) == ParseIntDigits(neg, r, DigitRun(r, 1))
ParseIntTrimmed(t) == ParseIntSigned(CharAt(t, 1) = "-", Unsigned(t))
parseInt(text) == ParseIntTrimmed(TrimStart(text))

\* The characters a JSON string may hold between its quotes unescaped.
RECURSIVE PlainChars(_)
PlainChars(s) ==
    \/ s = ""
    \/ /\ CharAt(s, 1) \notin {"\"", "\\", "\t", "\n", "\r"}
       /\ PlainChars(From(s, 2))

\* JSON's number grammar, the whole of the text:
\*   -? (0 | [1-9][0-9]*) (. [0-9]+)? ([eE] [+-]? [0-9]+)?
JSONNumberExponent(neg, r, a, f, e) ==
    IF /\ a >= 1
       /\ (a > 1 => CharAt(r, 1) # "0")
       /\ (HasPoint(r, a) => f >= 1)
       /\ MantissaLength(r, a, f) + e[2] = Len(r)
    THEN [ok |-> TRUE, value |-> DecimalValue(neg, r, a, f, e)]
    ELSE [ok |-> FALSE, value |-> NaN]
JSONNumberFraction(neg, r, a, f) ==
    JSONNumberExponent(neg, r, a, f, ExponentAt(r, MantissaLength(r, a, f) + 1))
JSONNumberDigits(neg, r, a) == JSONNumberFraction(neg, r, a, FractionRun(r, a))
JSONNumberSigned(neg, r) == JSONNumberDigits(neg, r, DigitRun(r, 1))
JSONNumber(t) ==
    JSONNumberSigned(CharAt(t, 1) = "-", IF CharAt(t, 1) = "-" THEN From(t, 2) ELSE t)

\* JSON.parse of a text that holds no bracket, brace or backslash (TextPool
\* holds none): [ok |-> TRUE, value |-> v], or ok = FALSE where it throws.
JSONValue(t) ==
    IF t = "true" THEN [ok |-> TRUE, value |-> JBool(TRUE)]
    ELSE IF t = "false" THEN [ok |-> TRUE, value |-> JBool(FALSE)]
    ELSE IF t = "null" THEN [ok |-> TRUE, value |-> JNull]
    ELSE IF Len(t) >= 2 /\ CharAt(t, 1) = "\"" /\ CharAt(t, Len(t)) = "\""
            /\ PlainChars(SubSeq(t, 2, Len(t) - 1))
    THEN [ok |-> TRUE, value |-> JStr(SubSeq(t, 2, Len(t) - 1))]
    ELSE JSONNumber(t)
JSONparse(text) == JSONValue(Trim(text))

(***************************************************************************)
(* Schema nodes (JSONSchema, types.ts): a node is a function from the keys *)
(* it holds to their values; {} is the function of no key.                 *)
(*   type, description, pattern, format : strings                          *)
(*   const, default, x-*, minimum ... maxItems : JavaScript values         *)
(*   enum : a sequence of JavaScript values;  required : one of strings    *)
(*   items : a node;  properties : an object of nodes (see PropertySet)    *)
(***************************************************************************)

EmptySchema == <<>>
Has(schema, key) == key \in DOMAIN schema
\* schema[key] = value
SetKey(schema, key, value) ==
    [c \in (DOMAIN schema) \cup {key} |-> IF c = key THEN value ELSE schema[c]]
\* schema.type === t
TypeIs(schema, t) == Has(schema, "type") /\ schema["type"] = t

\* A value that may be undefined: <<>> is undefined, <<v>> is v.
Undefined == <<>>
Some(v) == <<v>>
IsDefined(o) == o # <<>>
Get(o) == o[1]

(***************************************************************************)
(* The tag helpers of utils.ts.  A Map<string, string> is a function from  *)
(* the names it holds to their texts.                                      *)
(***************************************************************************)

EmptyMap == <<>>
MapHas(tags, tagName) == tagName \in DOMAIN tags
\* a map that keeps the text a name was first set to
MapSetOnce(tags, tagName, tagText) ==
    [n \in (DOMAIN tags) \cup {tagName} |-> IF n \in DOMAIN tags THEN tags[n] ELSE tagText]
MapSet(tags, tagName, tagText) ==
    [n \in (DOMAIN tags) \cup {tagName} |-> IF n = tagName THEN tagText ELSE tags[n]]

\* parts.map(part => part.text).join('')
RECURSIVE Join(_)
Join(parts) == IF parts = <<>> THEN "" ELSE Head(parts) \o Join(Tail(parts))

\* A symbol's tag (JSDocTagInfo) is [name, text], text the sequence of its
\* parts' texts, empty also when tag.text is undefined: both give ''.
RECURSIVE ExtractLoop(_, _)
ExtractLoop(jsDocTags, tags) ==
    IF jsDocTags = <<>> THEN tags
    ELSE ExtractLoop(Tail(jsDocTags),
                     MapSet(tags, Head(jsDocTags).name, Join(Head(jsDocTags).text)))

\* symbol: Undefined or Some(symbol)
extractJSDocTags(symbol) ==
    IF ~IsDefined(symbol) THEN EmptyMap
    ELSE ExtractLoop(Get(symbol).jsDocTags, EmptyMap)

getDescription(symbol) ==
    IF ~IsDefined(symbol) THEN Undefined
    ELSE IF Len(Get(symbol).documentation) > 0
         THEN Some(Join(Get(symbol).documentation))
         ELSE Undefined

\* the value, NaN or not
KeepNaN(value) == Some(value)
\* the value unless it is NaN
UnlessNaN(value) == IF ~isNaN(value) THEN Some(value) ELSE Undefined

parseFloatTag(tags, tagName) ==
    IF MapHas(tags, tagName) THEN UnlessNaN(parseFloat(tags[tagName])) ELSE Undefined

parseIntTag(tags, tagName) ==
    IF MapHas(tags, tagName) THEN UnlessNaN(parseInt(tags[tagName])) ELSE Undefined

\* if (value !== undefined) schema[key] = value
SetIfDefined(schema, key, value) ==
    IF IsDefined(value) THEN SetKey(schema, key, Get(value)) ELSE schema

\* if (tags.has(tagName)) schema[tagName] = tags.get(tagName)
CopyTag(schema, tags, tagName) ==
    IF MapHas(tags, tagName) THEN SetKey(schema, tagName, tags[tagName]) ELSE schema

\* if (description) schema.description = description
SetDescription(schema, description) ==
    IF IsDefined(description) /\ Get(description) # ""
    THEN SetKey(schema, "description", Get(description))
    ELSE schema

\* if (tags.has('integer')) schema.type = 'integer'
SetInteger(schema, tags) ==
    IF MapHas(tags, "integer") THEN SetKey(schema, "type", "integer") ELSE schema

\* the four statements of the number group, whatever guards them
NumberTags(schema, tags) ==
    SetInteger(
        SetIfDefined(
            SetIfDefined(
                SetIfDefined(schema, "minimum", parseFloatTag(tags, "minimum")),
                "maximum", parseFloatTag(tags, "maximum")),
            "multipleOf", parseFloatTag(tags, "multipleOf")),
        tags)

\* the four statements of the string group
StringTags(schema, tags) ==
    CopyTag(
        CopyTag(
            SetIfDefined(
                SetIfDefined(schema, "minLength", parseIntTag(tags, "minLength")),
                "maxLength", parseIntTag(tags, "maxLength")),
            tags, "pattern"),
        tags, "format")

\* the two statements of the array group
ArrayTags(schema, tags) ==
    SetIfDefined(
        SetIfDefined(schema, "minItems", parseIntTag(tags, "minItems")),
        "maxItems", parseIntTag(tags, "maxItems"))

\* the text kept as it is, never parsed
RawText(parsed, text) == JStr(text)

\* try { JSON.parse(text) } catch { text }
ParsedOr(parsed, text) == IF parsed.ok THEN parsed.value ELSE JStr(text)
ParseOrRaw(text) == ParsedOr(JSONparse(text), text)

DefaultValue(schema, tags) ==
    IF MapHas(tags, "default")
    THEN SetKey(schema, "default", ParseOrRaw(tags["default"]))
    ELSE schema

knownTags ==
    {"minimum", "maximum", "multipleOf", "integer", "minLength", "maxLength",
     "pattern", "format", "minItems", "maxItems", "default"}

\* a tag's own name as its key
PlainKey(tagName) == tagName
ExtensionKey(tagName) == "x-" \o tagName

\* The loop over the map's entries: each unknown name writes a key of its
\* own, so the order of the entries does not show in the node.
UnknownTags(schema, tags) ==
    [c \in (DOMAIN schema) \cup {ExtensionKey(n) : n \in (DOMAIN tags) \ knownTags} |->
        IF \E n \in (DOMAIN tags) \ knownTags : ExtensionKey(n) = c
        THEN ParseOrRaw(tags[CHOOSE n \in (DOMAIN tags) \ knownTags : ExtensionKey(n) = c])
        ELSE schema[c]]

\* the number group whatever the node's type
NumberTagsAnyType(schema, tags) == NumberTags(schema, tags)

NumberValidations(schema, tags) ==
    IF TypeIs(schema, "number") \/ TypeIs(schema, "integer")
    THEN NumberTags(schema, tags)
    ELSE schema

\* the string group whatever the node's type
StringTagsAnyType(schema, tags) == StringTags(schema, tags)

StringValidations(schema, tags) ==
    IF TypeIs(schema, "string") THEN StringTags(schema, tags) ELSE schema

ArrayValidations(schema, tags) ==
    IF TypeIs(schema, "array") THEN ArrayTags(schema, tags) ELSE schema

\* applyJSDocTags of utils.ts: the node after the call
applyJSDocTags(schema, tags, description) ==
    UnknownTags(
        DefaultValue(
            ArrayValidations(
                StringValidations(
                    NumberValidations(SetDescription(schema, description), tags),
                    tags),
                tags),
            tags),
        tags)

\* applyJSDocTags of index.ts: the same statements with no guard on the
\* node's type and no extension fields
applyJSDocTagsIndex(schema, tags, description) ==
    DefaultValue(
        ArrayTags(
            StringTags(NumberTags(SetDescription(schema, description), tags), tags),
            tags),
        tags)

(***************************************************************************)
(* The type model (ts.Type, ts.Symbol, ts.TypeChecker), as compile reads   *)
(* it.  A type is a record                                                 *)
(*   flags : the set of its TypeFlags;  value : a literal type's value     *)
(*   typeString : typeChecker.typeToString(type)                           *)
(*   types : the members of a union or an intersection                     *)
(*   isArrayType, isTupleType : the checker's answers                      *)
(*   typeArguments, resolvedTypeArguments : Undefined or Some(sequence)    *)
(*   properties : typeChecker.getPropertiesOfType(type), a sequence        *)
(*   symbol : type.getSymbol();  aliasSymbol                               *)
(* and a symbol is a record                                                *)
(*   name;  flags : the set of its SymbolFlags                             *)
(*   type : typeChecker.getTypeOfSymbol(symbol), Undefined for a type's    *)
(*   jsDocTags;  documentation : the texts of its comment parts            *)
(***************************************************************************)

HasFlag(type, flag) == flag \in type.flags
\* type.isUnion(), type.isIntersection()
isUnion(type) == HasFlag(type, "Union")
isIntersection(type) == HasFlag(type, "Intersection")
\* TypeFlags.EnumLike = Enum | EnumLiteral
IsEnumLike(type) == HasFlag(type, "Enum") \/ HasFlag(type, "EnumLiteral")

\* every boolean literal read as true
BooleanLiteralTrue(type) == JBool(TRUE)

\* typeString === 'true'
BooleanLiteralValue(type) == JBool(type.typeString = "true")

(***************************************************************************)
(* A JavaScript object keyed by property names, as `properties` is: the    *)
(* sequence of its [key, value] entries in the order of its own keys,      *)
(* array indices first in ascending order, then the other keys in the      *)
(* order they were created.                                                *)
(***************************************************************************)

\* the canonical numeric strings of 0 .. 2^32 - 2 = 4294967294
IsArrayIndex(key) ==
    /\ Len(key) >= 1
    /\ Len(key) <= 10
    /\ DigitRun(key, 1) = Len(key)
    /\ (Len(key) > 1 => CharAt(key, 1) # "0")
    /\ (Len(key) = 10 =>
           \/ DigitsValue(SubSeq(key, 1, 9)) < 429496729
           \/ /\ DigitsValue(SubSeq(key, 1, 9)) = 429496729
              /\ DigitValue(CharAt(key, 10)) <= 4)

EmptyObject == <<>>
ObjectKeys(obj) == [i \in 1..Len(obj) |-> obj[i].key]
ObjectHas(obj, key) == \E i \in 1..Len(obj) : obj[i].key = key
ObjectGet(obj, key) == obj[CHOOSE i \in 1..Len(obj) : obj[i].key = key].value

\* the entries that have to follow a new key
Later(obj, key) ==
    {i \in 1..Len(obj) :
        /\ IsArrayIndex(key)
        /\ \/ ~IsArrayIndex(obj[i].key)
           \/ DigitsValue(obj[i].key) > DigitsValue(key)}
Least(S) == CHOOSE i \in S : \A j \in S : i <= j
\* where a new key goes: before the first entry that has to follow it
InsertAt(obj, key) ==
    IF Later(obj, key) = {} THEN Len(obj) + 1 ELSE Least(Later(obj, key))
InsertEntry(obj, at, entry) ==
    SubSeq(obj, 1, at - 1) \o <<entry>> \o SubSeq(obj, at, Len(obj))

\* obj[key] = value
PropertySet(obj, key, value) ==
    IF ObjectHas(obj, key)
    THEN [i \in 1..Len(obj) |->
             IF obj[i].key = key THEN [key |-> key, value |-> value] ELSE obj[i]]
    ELSE InsertEntry(obj, InsertAt(obj, key), [key |-> key, value |-> value])

(***************************************************************************)
(* compile (compiler.ts).  Its outcome is the node it returns or the       *)
(* message of the Error it throws.                                         *)
(***************************************************************************)

Return(schema) == [ok |-> TRUE, schema |-> schema, error |-> ""]
Throw(message) == [ok |-> FALSE, schema |-> EmptySchema, error |-> message]

ComplexUnionMessage ==
    "Complex union types are not supported. Only literal type unions (enums) are supported."
TupleMessage == "Tuple types are not supported."
IntersectionMessage == "Intersection types are not supported."
\* the message without the type's name
UnnamedMessage(type) == "Unsupported type: "
UnsupportedMessage(type) == "Unsupported type: " \o type.typeString

\* type.getSymbol() || type.aliasSymbol
SymbolOf(type) == IF IsDefined(type.symbol) THEN type.symbol ELSE type.aliasSymbol

\* the loop of the enum branch: the values of the string and number literal
\* members, the other members passed over
RECURSIVE EnumValues(_)
EnumValues(types) ==
    IF types = <<>> THEN <<>>
    ELSE IF HasFlag(Head(types), "StringLiteral") \/ HasFlag(Head(types), "NumberLiteral")
    THEN <<Head(types).value>> \o EnumValues(Tail(types))
    ELSE EnumValues(Tail(types))

\* the loop of the union branch, from the values collected so far: it stops
\* at the first member that is no literal
RECURSIVE UnionValues(_, _)
UnionValues(types, enumValues) ==
    IF types = <<>> THEN [allLiterals |-> TRUE, enumValues |-> enumValues]
    ELSE IF HasFlag(Head(types), "StringLiteral") \/ HasFlag(Head(types), "NumberLiteral")
    THEN UnionValues(Tail(types), Append(enumValues, Head(types).value))
    ELSE IF HasFlag(Head(types), "BooleanLiteral")
    THEN UnionValues(Tail(types), Append(enumValues, BooleanLiteralValue(Head(types))))
    ELSE [allLiterals |-> FALSE, enumValues |-> enumValues]

\* the value `typeArguments` of the array branch
TypeArgumentsOf(type) ==
    IF IsDefined(type.typeArguments) THEN type.typeArguments
    ELSE type.resolvedTypeArguments

\* a property is optional if it has the Optional flag or if its type
\* includes undefined
isOptional(prop, propType) ==
    \/ "Optional" \in prop.flags
    \/ HasFlag(propType, "Undefined")
    \/ /\ isUnion(propType)
       /\ \E i \in 1..Len(propType.types) : HasFlag(propType.types[i], "Undefined")

\* required.push(propName) whatever the property
PushRequiredAlways(required, prop, propType) == Append(required, prop.name)

\* required.push(propName) unless the property is optional
PushRequired(required, prop, propType) ==
    IF ~isOptional(prop, propType) THEN Append(required, prop.name) ELSE required

\* the node of the member's type as it is
TypeLevelOnly(schema, prop) == schema

\* The member's node: the node of its type with the property's own tags and
\* description applied to it.
PropertySchema(schema, prop) ==
    applyJSDocTags(schema, extractJSDocTags(Some(prop)), getDescription(Some(prop)))

\* schema.required = required, empty or not
SetRequiredAlways(schema, required) == SetKey(schema, "required", required)
\* if (required.length > 0) schema.required = required
SetRequired(schema, required) ==
    IF Len(required) > 0 THEN SetKey(schema, "required", required) ELSE schema

\* an enum node that also holds a type
EnumSchemaTyped(enumValues) ==
    SetKey(SetKey(EmptySchema, "type", "string"), "enum", enumValues)

Typed(t) == SetKey(EmptySchema, "type", t)
EnumSchema(enumValues) == SetKey(EmptySchema, "enum", enumValues)

RECURSIVE compile(_)
RECURSIVE PropertiesLoop(_, _, _)

\* One turn of the loop over the properties, `compiled` the outcome of
\* compile(propType): the Error it threw, or the rest of the loop with the
\* property's node stored and its name pushed if it is required.
PropertyStep(props, properties, required, compiled) ==
    IF ~compiled.ok
    THEN [ok |-> FALSE, properties |-> properties, required |-> required,
          error |-> compiled.error]
    ELSE PropertiesLoop(
             Tail(props),
             PropertySet(properties, Head(props).name,
                         PropertySchema(compiled.schema, Head(props))),
             PushRequired(required, Head(props), Get(Head(props).type)))

\* The loop over the properties from `properties` (the node's) and `required`
\* as they stand: both as the loop leaves them, or the Error a property's type
\* throws.
PropertiesLoop(props, properties, required) ==
    IF props = <<>>
    THEN [ok |-> TRUE, properties |-> properties, required |-> required, error |-> ""]
    ELSE PropertyStep(props, properties, required, compile(Get(Head(props).type)))

\* the values the enum branch collects; none when the branch is not taken
EnumBranchValues(type) ==
    IF IsEnumLike(type) /\ isUnion(type) THEN EnumValues(type.types) ELSE <<>>

UnionBranch(union) ==
    IF union.allLiterals /\ Len(union.enumValues) > 0
    THEN Return(EnumSchema(union.enumValues))
    ELSE Throw(ComplexUnionMessage)

\* an array node that leaves its element out
ArrayItemsBare(items) == Return(SetKey(EmptySchema, "type", "array"))

ArrayItems(items) ==
    IF items.ok
    THEN Return(SetKey(Typed("array"), "items", items.schema))
    ELSE Throw(items.error)

ArrayBranch(typeArguments) ==
    IF IsDefined(typeArguments) /\ Len(Get(typeArguments)) > 0
    THEN ArrayItems(compile(Get(typeArguments)[1]))
    ELSE Return(Typed("array"))

\* an object node of the properties stored before a property's type threw
ObjectBranchPartial(loop) ==
    Return(SetKey(SetKey(EmptySchema, "type", "object"), "properties", loop.properties))

ObjectBranch(loop) ==
    IF loop.ok
    THEN Return(SetRequired(SetKey(Typed("object"), "properties", loop.properties),
                            loop.required))
    ELSE Throw(loop.error)

\* The branches of compile from the enum branch on, enumValues what the enum
\* branch collected: Return(the node as assembled, the type's own tags not
\* yet applied) or the Error thrown.
Composite(type, enumValues) ==
    IF IsEnumLike(type) /\ Len(enumValues) > 0 THEN Return(EnumSchema(enumValues))
    ELSE IF isUnion(type) THEN UnionBranch(UnionValues(type.types, <<>>))
    ELSE IF type.isArrayType THEN ArrayBranch(TypeArgumentsOf(type))
    ELSE IF type.isTupleType THEN Throw(TupleMessage)
    ELSE IF HasFlag(type, "Object")
    THEN ObjectBranch(PropertiesLoop(type.properties, EmptyObject, <<>>))
    ELSE IF isIntersection(type) THEN Throw(IntersectionMessage)
    ELSE Throw(UnsupportedMessage(type))

\* All the branches of compile, in their order.
Assemble(type) ==
    IF HasFlag(type, "String") THEN Return(Typed("string"))
    ELSE IF HasFlag(type, "StringLiteral")
    THEN Return(SetKey(Typed("string"), "const", type.value))
    ELSE IF HasFlag(type, "Number") THEN Return(Typed("number"))
    ELSE IF HasFlag(type, "NumberLiteral")
    THEN Return(SetKey(Typed("number"), "const", type.value))
    ELSE IF HasFlag(type, "Boolean") THEN Return(Typed("boolean"))
    ELSE IF HasFlag(type, "BooleanLiteral")
    THEN Return(SetKey(Typed("boolean"), "const", BooleanLiteralValue(type)))
    ELSE IF HasFlag(type, "Null") THEN Return(Typed("null"))
    ELSE IF HasFlag(type, "Undefined") THEN Return(Typed("null"))
    ELSE Composite(type, EnumBranchValues(type))

\* applyJSDocTags(schema, tags, description); return schema  -- the end of
\* every branch that returns
Finish(type, assembled) ==
    IF assembled.ok
    THEN Return(applyJSDocTags(assembled.schema, extractJSDocTags(SymbolOf(type)),
                               getDescription(SymbolOf(type))))
    ELSE assembled

compile(type) == Finish(type, Assemble(type))

(***************************************************************************)
(* The types and symbols the TypeScript checker hands to compile           *)
(***************************************************************************)

NoType ==
    [flags |-> {}, value |-> JNull, typeString |-> "", types |-> <<>>,
     isArrayType |-> FALSE, isTupleType |-> FALSE,
     typeArguments |-> Undefined, resolvedTypeArguments |-> Undefined,
     properties |-> <<>>, symbol |-> Undefined, aliasSymbol |-> Undefined]

Intrinsic(flag, text) == [NoType EXCEPT !.flags = {flag}, !.typeString = text]
StringType == Intrinsic("String", "string")
NumberType == Intrinsic("Number", "number")
NullType == Intrinsic("Null", "null")
UndefinedType == Intrinsic("Undefined", "undefined")
AnyType == Intrinsic("Any", "any")
TrueType == Intrinsic("BooleanLiteral", "true")
FalseType == Intrinsic("BooleanLiteral", "false")
\* boolean is the union false | true, flagged Boolean
BooleanType ==
    [NoType EXCEPT !.flags = {"Boolean", "Union"}, !.typeString = "boolean",
                   !.types = <<FalseType, TrueType>>]
StringLiteral(s) ==
    [NoType EXCEPT !.flags = {"StringLiteral"}, !.value = JStr(s),
                   !.typeString = "\"" \o s \o "\""]
NumberLiteral(n, text) ==
    [NoType EXCEPT !.flags = {"NumberLiteral"}, !.value = JNum(n, 0),
                   !.typeString = text]

\* a symbol that declares a type (an interface, an alias, an enum member)
TypeSymbol(name, jsDocTags, documentation) ==
    [name |-> name, flags |-> {}, type |-> Undefined,
     jsDocTags |-> jsDocTags, documentation |-> documentation]
\* a symbol that declares a property of type `type`
PropertySymbol(name, optional, type, jsDocTags, documentation) ==
    [name |-> name, flags |-> IF optional THEN {"Optional"} ELSE {},
     type |-> Some(type), jsDocTags |-> jsDocTags, documentation |-> documentation]
Tag(name, text) == [name |-> name, text |-> IF text = "" THEN <<>> ELSE <<text>>]

\* a union type; alias is Undefined or Some(the alias that names it)
UnionOf(types, alias) ==
    [NoType EXCEPT !.flags = {"Union"}, !.types = types, !.aliasSymbol = alias,
                   !.typeString = "union"]
\* the members of an enum E: a member with a constant value is a literal
\* flagged EnumLiteral, a computed member is a type of its own flagged Enum
EnumMember(literal, name) ==
    [literal EXCEPT !.flags = @ \cup {"EnumLiteral"},
                    !.symbol = Some(TypeSymbol(name, <<>>, <<>>)),
                    !.typeString = "E." \o name]
ComputedEnumMember(name) ==
    [NoType EXCEPT !.flags = {"Enum"}, !.typeString = "E." \o name,
                   !.symbol = Some(TypeSymbol(name, <<>>, <<>>))]
\* the enum itself: the union of its members, flagged EnumLiteral
EnumOf(types, symbol) ==
    [NoType EXCEPT !.flags = {"Union", "EnumLiteral"}, !.types = types,
                   !.symbol = Some(symbol), !.typeString = "E"]
\* T[]: a reference to the global Array, whose symbol carries no tag
ArrayOf(elementType) ==
    [NoType EXCEPT !.flags = {"Object"}, !.isArrayType = TRUE,
                   !.resolvedTypeArguments = Some(<<elementType>>),
                   !.symbol = Some(TypeSymbol("Array", <<>>, <<>>)),
                   !.typeString = "array"]
\* an array type whose type arguments the checker has not resolved
UnresolvedArray ==
    [ArrayOf(StringType) EXCEPT !.resolvedTypeArguments = Undefined]
TupleType ==
    [NoType EXCEPT !.flags = {"Object"}, !.isTupleType = TRUE,
                   !.resolvedTypeArguments = Some(<<StringType, NumberType>>),
                   !.typeString = "[string, number]"]
IntersectionType ==
    [NoType EXCEPT !.flags = {"Intersection"}, !.typeString = "A & B",
                   !.types = <<StringType, NumberType>>]
ObjectType(properties, symbol) ==
    [NoType EXCEPT !.flags = {"Object"}, !.properties = properties,
                   !.symbol = Some(symbol), !.typeString = symbol.name]

(***************************************************************************)
(* Bounds, and the inputs within them                                      *)
(***************************************************************************)

\* the most properties of an object type
MaxMembers == 2
\* the most members of a union type
MaxUnion == 3
\* the number of tag texts tried, the first of TextPool
NumTexts == 6
\* the most tags of a tag map handed to applyJSDocTags on its own
MaxTags == 2
\* the most calls of compile under way at a time: the stack of the engine
\* holds no more
MaxDepth == 8

\* the sequences of n different elements of S
Arrangements(S, n) ==
    {f \in [1..n -> S] : \A i, j \in 1..n : i # j => f[i] # f[j]}

\* the declarations a type can come from
PlainSymbol == TypeSymbol("T", <<>>, <<>>)
DocumentedSymbol ==
    TypeSymbol("T", <<Tag("default", "\"a\""), Tag("customTag", "value")>>, <<"A type">>)
RangedSymbol == TypeSymbol("T", <<Tag("minimum", "10"), Tag("integer", "")>>, <<>>)
TypeSymbols == {PlainSymbol, DocumentedSymbol, RangedSymbol}

EnumMembers ==
    {EnumMember(StringLiteral("a"), "A"), EnumMember(NumberLiteral(1, "1"), "B"),
     ComputedEnumMember("C")}
LeafTypes ==
    {StringType, NumberType, BooleanType, NullType, UndefinedType, AnyType,
     TrueType, FalseType, StringLiteral("a"), StringLiteral("b"),
     NumberLiteral(1, "1"), NumberLiteral(42, "42")}
        \cup EnumMembers
        \cup {[EnumMember(NumberLiteral(2, "2"), "D") EXCEPT !.symbol = Some(s)] :
                  s \in {DocumentedSymbol, RangedSymbol}}

UnionMembers ==
    {StringLiteral("a"), StringLiteral("b"), NumberLiteral(1, "1"), TrueType,
     UndefinedType, StringType}
UnionTypes ==
    {UnionOf(types, Undefined) :
         types \in UNION {Arrangements(UnionMembers, n) : n \in 2..MaxUnion}}
        \cup {UnionOf(types, Some(s)) :
                  types \in Arrangements(UnionMembers, 2),
                  s \in {DocumentedSymbol, RangedSymbol}}
EnumTypes ==
    {EnumOf(types, s) :
         types \in UNION {Arrangements(EnumMembers, n) : n \in 2..MaxUnion},
         s \in TypeSymbols}

\* what a property's declaration adds to its type: its tags and its comment
NoAnnotation == [jsDocTags |-> <<>>, documentation |-> <<>>]
IgnoreAnnotation == [jsDocTags |-> <<Tag("ignore", "")>>, documentation |-> <<>>]
ConstraintAnnotation ==
    [jsDocTags |-> <<Tag("minimum", "10"), Tag("customTag", "value")>>,
     documentation |-> <<"A member">>]
MemberAnnotations == {NoAnnotation, IgnoreAnnotation, ConstraintAnnotation}
MemberTypes ==
    {StringType, NumberType, UndefinedType,
     UnionOf(<<UndefinedType, NumberType>>, Undefined), ArrayOf(StringType)}
\* two of the property names are array indices
PropertyNames == {"name", "10", "2"}
Members ==
    [optional : BOOLEAN, type : MemberTypes, annotation : MemberAnnotations]

Properties(names, members) ==
    [i \in 1..Len(names) |->
        PropertySymbol(names[i], members[i].optional, members[i].type,
                       members[i].annotation.jsDocTags,
                       members[i].annotation.documentation)]
\* the object types of n properties
IsObjectInput(t, n) ==
    \E names \in Arrangements(PropertyNames, n) :
        \E members \in [1..n -> Members] :
            t = ObjectType(Properties(names, members), PlainSymbol)
\* the object types of at most one property whose declaration is annotated
AnnotatedObjectTypes ==
    UNION {{ObjectType(Properties(names, members), s) :
                names \in Arrangements(PropertyNames, n),
                members \in [1..n -> Members],
                s \in {DocumentedSymbol, RangedSymbol}} : n \in 0..1}

\* the object types of one property tagged `ignore` whose type compile rejects
IgnoredUnsupportedTypes ==
    {ObjectType(<<PropertySymbol("shape", optional, t, <<Tag("ignore", "")>>, <<>>)>>,
                PlainSymbol) :
         optional \in BOOLEAN,
         t \in {TupleType, IntersectionType, UnionOf(<<StringLiteral("a"), StringType>>, Undefined)}}

\* the object types of one property whose type is declared with tags of its
\* own (an enum, a member of an enum, an interface), the property with none,
\* with tags of other names, or with tags of the same names
AnnotatedMemberTypes ==
    {ObjectType(<<PropertySymbol("value", FALSE, t, a.jsDocTags, a.documentation)>>,
                PlainSymbol) :
         t \in {[EnumMember(NumberLiteral(2, "2"), "D") EXCEPT !.symbol = Some(RangedSymbol)],
                [EnumMember(NumberLiteral(2, "2"), "D") EXCEPT !.symbol = Some(DocumentedSymbol)],
                EnumOf(<<EnumMember(StringLiteral("a"), "A"),
                         EnumMember(NumberLiteral(1, "1"), "B")>>, DocumentedSymbol),
                ObjectType(<<>>, DocumentedSymbol)},
         a \in {NoAnnotation, ConstraintAnnotation,
                [jsDocTags |-> <<Tag("minimum", "5"), Tag("default", "\"b\""),
                                 Tag("customTag", "other")>>,
                 documentation |-> <<"Overridden">>]}}

\* the object types of several properties of which any may have a type
\* compile throws on, the Errors differing: a tuple, an intersection, a union
\* that is no enum, an interface that holds an intersection
FailingMemberTypes ==
    UNION {{ObjectType([i \in 1..n |->
                           PropertySymbol(<<"a", "b", "c", "d">>[i], FALSE, members[i],
                                          <<>>, <<>>)],
                       PlainSymbol) :
                members \in [1..n -> {StringType, TupleType, IntersectionType,
                                      UnionOf(<<StringLiteral("a"), StringType>>, Undefined),
                                      ObjectType(<<PropertySymbol("inner", FALSE, IntersectionType,
                                                                  <<>>, <<>>)>>,
                                                 PlainSymbol)}]} :
           n \in 2..MaxMembers}

Person ==
    ObjectType(<<PropertySymbol("name", FALSE, StringType, <<>>, <<>>),
                 PropertySymbol("age", TRUE, NumberType, <<>>, <<>>)>>,
               TypeSymbol("Person", <<>>, <<"A person">>))
Team ==
    ObjectType(<<PropertySymbol("lead", FALSE, Person, <<>>, <<"The lead">>),
                 PropertySymbol("members", FALSE, ArrayOf(Person),
                                <<Tag("minItems", "1")>>, <<>>),
                 PropertySymbol("shape", TRUE, TupleType, <<>>, <<>>)>>,
               TypeSymbol("Team", <<>>, <<>>))
ElementTypes ==
    LeafTypes
        \cup {u \in UnionTypes : Len(u.types) = 2}
        \cup {t \in EnumTypes : Len(t.types) = 2}
        \cup {TupleType, IntersectionType, UnresolvedArray, ArrayOf(StringType),
              ArrayOf(TupleType), Person, Team}
ArrayTypes == {ArrayOf(elementType) : elementType \in ElementTypes} \cup {UnresolvedArray}

OtherTypes ==
    LeafTypes \cup UnionTypes \cup EnumTypes \cup ArrayTypes \cup AnnotatedObjectTypes
        \cup {TupleType, IntersectionType, Person, Team} \cup IgnoredUnsupportedTypes
        \cup AnnotatedMemberTypes \cup FailingMemberTypes

\* the types compile is called with
IsInput(t) ==
    \/ t \in OtherTypes
    \/ \E n \in 0..MaxMembers : IsObjectInput(t, n)

(***************************************************************************)
(* The nodes, tag maps and descriptions applyJSDocTags is called with      *)
(***************************************************************************)

TextPool == <<"10", "abc", "", "\"ok\"", "1.5", "true", "12px", " 7 ">>
Texts == {TextPool[i] : i \in {j \in 1..Len(TextPool) : j <= NumTexts}}

\* every name applyJSDocTags knows, and two it does not
TagNames == knownTags \cup {"customTag", "ignore"}
\* the names of the maps that hold more than one tag
ComboNames == {"minimum", "integer", "minLength", "default", "customTag", "ignore"}

IsTagMap(m) ==
    \/ m = EmptyMap
    \/ \E n \in TagNames : \E t \in Texts : m = MapSet(EmptyMap, n, t)
    \/ \E names \in SUBSET ComboNames :
           /\ Cardinality(names) >= 2
           /\ Cardinality(names) <= MaxTags
           /\ \E f \in [names -> Texts] : m = f

\* the nodes compile assembles, and a node an earlier call made an integer
Nodes ==
    {EmptySchema, Typed("string"), Typed("number"), Typed("integer"),
     Typed("boolean"), Typed("null"), Typed("array"),
     SetKey(Typed("array"), "items", Typed("string")),
     SetKey(Typed("object"), "properties", EmptyObject),
     EnumSchema(<<JStr("a"), JNum(1, 0)>>),
     SetKey(Typed("string"), "const", JStr("a"))}

Descriptions == {Undefined, Some("A description"), Some("")}

(***************************************************************************)
(* A call of compile: the caller holds a type, calls compile(type), and    *)
(* holds the node it returned or the Error it threw.                       *)
(***************************************************************************)

VARIABLES pc, type, outcome, applied, schema, tags, description, stack, declared
vars == <<pc, type, outcome, applied, schema, tags, description, stack, declared>>

NoOutcome == Throw("")
\* no declaration refers to a type by its name
NoneDeclared == <<>>

Init ==
    /\ pc = "ready"
    /\ IsInput(type)
    /\ outcome = NoOutcome
    /\ applied = EmptySchema
    /\ schema = EmptySchema
    /\ tags = EmptyMap
    /\ description = Undefined
    /\ stack = <<>>
    /\ declared = NoneDeclared

\* a type whose symbols are gone
Consumed(t) == [t EXCEPT !.symbol = Undefined, !.aliasSymbol = Undefined]
\* The type after a call of compile: compile assigns to no field of the type,
\* of its symbols or of their tags, and keeps nothing from one call to the next.
AfterCompile(t) == t

Compile ==
    /\ pc = "ready"
    /\ outcome' = compile(type)
    /\ pc' = IF outcome'.ok THEN "returned" ELSE "threw"
    /\ type' = AfterCompile(type)
    /\ UNCHANGED <<applied, schema, tags, description, stack, declared>>

Next == Compile

Spec == Init /\ [][Next]_vars

(***************************************************************************)
(* Two calls of compile on the same type, one after the other: the second  *)
(* is made with the type as the first left it.                             *)
(***************************************************************************)

CompileAgain ==
    /\ pc \in {"returned", "threw"}
    /\ outcome' = compile(type)
    /\ pc' = "again"
    /\ type' = AfterCompile(type)
    /\ UNCHANGED <<applied, schema, tags, description, stack, declared>>

NextTwice == Compile \/ CompileAgain

SpecTwice == Init /\ [][NextTwice]_vars

(***************************************************************************)
(* A call of compile, call by call: `stack` holds a frame for every call   *)
(* of compile that has begun and not ended, the outermost first.  A frame  *)
(* holds its type, the number `next` of the nested call it makes next, and *)
(* whether a nested call of its has thrown.  The nodes are left out: pc    *)
(* tells whether the outermost call returned or threw.                     *)
(***************************************************************************)

\* The types compile(t) calls compile with, in order, as long as none
\* throws: the first type argument in the array branch, the types of the
\* properties in the object branch, none in the other branches.
Calls(t) ==
    IF \E flag \in {"String", "StringLiteral", "Number", "NumberLiteral", "Boolean",
                    "BooleanLiteral", "Null", "Undefined"} : HasFlag(t, flag)
    THEN <<>>
    ELSE IF IsEnumLike(t) /\ Len(EnumBranchValues(t)) > 0 THEN <<>>
    ELSE IF isUnion(t) THEN <<>>
    ELSE IF t.isArrayType
    THEN IF IsDefined(TypeArgumentsOf(t)) /\ Len(Get(TypeArgumentsOf(t))) > 0
         THEN <<Get(TypeArgumentsOf(t))[1]>>
         ELSE <<>>
    ELSE IF t.isTupleType THEN <<>>
    ELSE IF HasFlag(t, "Object")
    THEN [i \in 1..Len(t.properties) |-> Get(t.properties[i].type)]
    ELSE <<>>

\* The type of a property, or the type argument of an array, that is a
\* declared interface is the one object the checker keeps for that interface:
\* Reference(name) stands for it, and Resolve finds it in the table
\* `declared` of the interfaces by name.
Reference(name) == [ref |-> name]
IsReference(t) == "ref" \in DOMAIN t
\* a reference taken for a type of no kind
Unresolved(table, t) == IF IsReference(t) THEN NoType ELSE t
Resolve(table, t) == IF IsReference(t) THEN table[t.ref] ELSE t

Frame(t) == [type |-> t, next |-> 1, failed |-> FALSE]
\* the call has nothing left to do but return or throw
Ended(frame) == frame.failed \/ frame.next > Len(Calls(frame.type))
\* The call throws: a nested call of its has thrown, or it makes no nested
\* call and its own branch throws.
Throws(frame) ==
    \/ frame.failed
    \/ Calls(frame.type) = <<>> /\ ~Assemble(frame.type).ok
\* a frame that makes the same nested call again
Stall(frame, ok) == frame
\* a frame that goes on to its next nested call whatever the last one did
ResumeAnyway(frame, ok) == [frame EXCEPT !.next = @ + 1]
\* the frame after a nested call of its returned (ok) or threw
Resume(frame, ok) ==
    IF ok THEN [frame EXCEPT !.next = @ + 1] ELSE [frame EXCEPT !.failed = TRUE]

InitCalls ==
    /\ pc = "ready"
    /\ type \in OtherTypes
    /\ outcome = NoOutcome
    /\ applied = EmptySchema
    /\ schema = EmptySchema
    /\ tags = EmptyMap
    /\ description = Undefined
    /\ stack = <<>>
    /\ declared = NoneDeclared

\* the caller calls compile(type)
Call ==
    /\ pc = "ready"
    /\ stack' = <<Frame(type)>>
    /\ pc' = "running"
    /\ UNCHANGED <<type, outcome, applied, schema, tags, description, declared>>

\* the innermost call calls compile for its next element or property
Descend ==
    /\ pc = "running"
    /\ ~Ended(stack[Len(stack)])
    /\ Len(stack) < MaxDepth
    /\ stack' = Append(stack, Frame(Resolve(declared,
                       Calls(stack[Len(stack)].type)[stack[Len(stack)].next])))
    /\ UNCHANGED <<pc, type, outcome, applied, schema, tags, description, declared>>

\* the innermost call, a nested one, returns or throws to the call that made it
Leave ==
    /\ pc = "running"
    /\ Len(stack) > 1
    /\ Ended(stack[Len(stack)])
    /\ stack' = [SubSeq(stack, 1, Len(stack) - 1) EXCEPT
                    ![Len(stack) - 1] = Resume(@, ~Throws(stack[Len(stack)]))]
    /\ UNCHANGED <<pc, type, outcome, applied, schema, tags, description, declared>>

\* the outermost call returns or throws to the caller
End ==
    /\ pc = "running"
    /\ Len(stack) = 1
    /\ Ended(stack[1])
    /\ pc' = IF Throws(stack[1]) THEN "threw" ELSE "returned"
    /\ stack' = <<>>
    /\ UNCHANGED <<type, outcome, applied, schema, tags, description, declared>>

NextCalls == Call \/ Descend \/ Leave \/ End

\* a call that can take its next step takes it
SpecCalls == InitCalls /\ [][NextCalls]_vars /\ WF_vars(NextCalls)

(***************************************************************************)
(* Interfaces that refer to interfaces by name, themselves included: T,    *)
(* the type compiled, has up to MaxMembers properties, each a string, a    *)
(* tuple, T, U, or an array of T or of U; U is one of four interfaces.     *)
(***************************************************************************)

ReferringTypes ==
    {StringType, TupleType, Reference("T"), Reference("U"),
     ArrayOf(Reference("T")), ArrayOf(Reference("U"))}
Referring(name, members) ==
    ObjectType([i \in 1..Len(members) |->
                   PropertySymbol(<<"a", "b", "c", "d">>[i], FALSE, members[i], <<>>, <<>>)],
               TypeSymbol(name, <<>>, <<>>))
IsDeclared(table) ==
    \E n \in 1..MaxMembers : \E members \in [1..n -> ReferringTypes] :
        \E other \in {<<StringType>>, <<Reference("T")>>, <<Reference("U")>>,
                       <<TupleType, Reference("U")>>} :
            table = [name \in {"T", "U"} |->
                        IF name = "T" THEN Referring("T", members)
                        ELSE Referring("U", other)]

InitCyclic ==
    /\ pc = "ready"
    /\ IsDeclared(declared)
    /\ type = declared["T"]
    /\ outcome = NoOutcome
    /\ applied = EmptySchema
    /\ schema = EmptySchema
    /\ tags = EmptyMap
    /\ description = Undefined
    /\ stack = <<>>

SpecCyclic == InitCyclic /\ [][NextCalls]_vars /\ WF_vars(NextCalls)

(***************************************************************************)
(* The tags of a property, extracted and applied as the loop of compile    *)
(* does: the property is of type number and carries up to MaxTags tags,    *)
(* names repeated or not, the text of a tag in no, one or two parts.       *)
(***************************************************************************)

DeclaredTags ==
    [name : {"minimum", "default", "customTag"},
     text : {<<>>, <<"5">>, <<"abc">>, <<"1", "0">>}]
IsDeclaredProperty(t) ==
    \E n \in 0..MaxTags : \E jsDocTags \in [1..n -> DeclaredTags] :
        t = ObjectType(<<PropertySymbol("value", FALSE, NumberType, jsDocTags, <<>>)>>,
                       PlainSymbol)

InitExtract ==
    /\ pc = "ready"
    /\ IsDeclaredProperty(type)
    /\ outcome = NoOutcome
    /\ applied = EmptySchema
    /\ schema = compile(NumberType).schema
    /\ tags = EmptyMap
    /\ description = Undefined
    /\ stack = <<>>
    /\ declared = NoneDeclared

\* const propTags = extractJSDocTags(prop, typeChecker)
ExtractTags ==
    /\ pc = "ready"
    /\ tags' = extractJSDocTags(Some(type.properties[1]))
    /\ description' = getDescription(Some(type.properties[1]))
    /\ pc' = "extracted"
    /\ UNCHANGED <<type, outcome, applied, schema, stack, declared>>

\* applyJSDocTags(schema.properties[propName], propTags, propDescription)
ApplyExtracted ==
    /\ pc = "extracted"
    /\ applied' = applyJSDocTags(schema, tags, description)
    /\ pc' = "applied"
    /\ UNCHANGED <<type, outcome, schema, tags, description, stack, declared>>

NextExtract == ExtractTags \/ ApplyExtracted

SpecExtract == InitExtract /\ [][NextExtract]_vars

(***************************************************************************)
(* A call of applyJSDocTags: the caller holds a node, a tag map and a      *)
(* description, and calls the function of utils.ts or the one of index.ts; *)
(* `applied` is the node after the call.                                   *)
(***************************************************************************)

InitApply ==
    /\ pc = "ready"
    /\ type = NoType
    /\ outcome = NoOutcome
    /\ applied = EmptySchema
    /\ schema \in Nodes
    /\ IsTagMap(tags)
    /\ description \in Descriptions
    /\ stack = <<>>
    /\ declared = NoneDeclared

ApplyUtils ==
    /\ pc = "ready"
    /\ applied' = applyJSDocTags(schema, tags, description)
    /\ pc' = "utils"
    /\ UNCHANGED <<type, outcome, schema, tags, description, stack, declared>>

ApplyIndex ==
    /\ pc = "ready"
    /\ applied' = applyJSDocTagsIndex(schema, tags, description)
    /\ pc' = "index"
    /\ UNCHANGED <<type, outcome, schema, tags, description, stack, declared>>

NextApply == ApplyUtils \/ ApplyIndex

SpecApply == InitApply /\ [][NextApply]_vars

(***************************************************************************)
(* What the descriptions of compile and applyJSDocTags say, stated of the  *)
(* inputs on their own terms.                                              *)
(***************************************************************************)

Returned == pc = "returned"
Threw == pc = "threw"

\* a struct/object descriptor
IsStruct(t) == t.flags = {"Object"} /\ ~t.isArrayType /\ ~t.isTupleType
\* an array-like descriptor
IsArrayLike(t) == t.flags = {"Object"} /\ t.isArrayType
\* a descriptor classified as a union: boolean is a primitive
IsUnionDescriptor(t) == "Union" \in t.flags /\ "Boolean" \notin t.flags

MemberType(p) == p.type[1]
\* the member's own tag set contains `ignore`
HasIgnore(p) == \E i \in 1..Len(p.jsDocTags) : p.jsDocTags[i].name = "ignore"
\* declared optional, or of type undefined or a union containing undefined
OptionalMember(p) ==
    \/ "Optional" \in p.flags
    \/ "Undefined" \in MemberType(p).flags
    \/ \E j \in 1..Len(MemberType(p).types) : "Undefined" \in MemberType(p).types[j].flags
RequiredMember(p) == ~OptionalMember(p)
NamesOf(props) == [i \in 1..Len(props) |-> props[i].name]
InSeq(x, seq) == \E i \in 1..Len(seq) : seq[i] = x
NoneIgnored(t) == \A i \in 1..Len(t.properties) : ~HasIgnore(t.properties[i])
MembersCompile(t) == \A i \in 1..Len(t.properties) : compile(MemberType(t.properties[i])).ok
PropertiesOf(node) == node["properties"]
RequiredOf(node) == IF "required" \in DOMAIN node THEN node["required"] ELSE <<>>

\* a descriptor that carries no annotation: no tag and no comment
Unannotated(t) ==
    \/ SymbolOf(t) = <<>>
    \/ /\ Len(SymbolOf(t)[1].jsDocTags) = 0
       /\ Len(SymbolOf(t)[1].documentation) = 0

LiteralMember(m) == m.flags \cap {"StringLiteral", "NumberLiteral", "BooleanLiteral"} # {}
LiteralValue(m) ==
    IF "BooleanLiteral" \in m.flags THEN JBool(m.typeString = "true") ELSE m.value

\* C1: in the node compile returns for a struct, an optional member whose
\* tags contain `ignore` has no entry in `properties` and is not listed in
\* `required`.
C1_IgnoredOptionalMemberSkipped ==
    (Returned /\ IsStruct(type)) =>
        \A i \in 1..Len(type.properties) :
            (OptionalMember(type.properties[i]) /\ HasIgnore(type.properties[i])) =>
                /\ ~ObjectHas(PropertiesOf(outcome.schema), type.properties[i].name)
                /\ ~InSeq(type.properties[i].name, RequiredOf(outcome.schema))

IgnoreConflictMessage(name) == "Cannot ignore required property: " \o name

\* C2: compiling a struct whose members' types all compile and one of whose
\* required members carries `ignore` throws 'Cannot ignore required property:
\* <name>' for such a member, and returns no node.
C2_IgnoredRequiredMemberThrows ==
    (/\ pc # "ready"
     /\ IsStruct(type)
     /\ MembersCompile(type)
     /\ \E i \in 1..Len(type.properties) :
            RequiredMember(type.properties[i]) /\ HasIgnore(type.properties[i])) =>
        /\ Threw
        /\ \E i \in 1..Len(type.properties) :
               /\ RequiredMember(type.properties[i])
               /\ HasIgnore(type.properties[i])
               /\ outcome.error = IgnoreConflictMessage(type.properties[i].name)

\* the call left the node's key k as it was
SameAt(k) ==
    /\ (k \in DOMAIN applied) = (k \in DOMAIN schema)
    /\ (k \in DOMAIN schema => applied[k] = schema[k])

\* C3: whichever applyJSDocTags is called, the number tags change nothing
\* unless the node's type is number or integer, the string tags nothing
\* unless it is string, the array tags nothing unless it is array, and no
\* recognized tag adds an `x-` field.
C3_TagsGatedByType ==
    pc \in {"utils", "index"} =>
        /\ ~(TypeIs(schema, "number") \/ TypeIs(schema, "integer")) =>
               \A k \in {"minimum", "maximum", "multipleOf", "type"} : SameAt(k)
        /\ ~TypeIs(schema, "string") =>
               \A k \in {"minLength", "maxLength", "pattern", "format"} : SameAt(k)
        /\ ~TypeIs(schema, "array") =>
               \A k \in {"minItems", "maxItems"} : SameAt(k)
        /\ \A n \in {"minimum", "maximum", "multipleOf", "integer", "minLength",
                     "maxLength", "pattern", "format", "minItems", "maxItems",
                     "default"} : ("x-" \o n) \notin DOMAIN applied

\* what C4 says of every struct but the order of the keys of `properties`
StructNode(t, node) ==
    /\ node["type"] = "object"
    /\ Len(PropertiesOf(node)) = Len(t.properties)
    /\ \A i \in 1..Len(t.properties) : ObjectHas(PropertiesOf(node), t.properties[i].name)
    /\ RequiredOf(node) = NamesOf(SelectSeq(t.properties, RequiredMember))

NotArrayIndex(name) == ~IsArrayIndex(name)
\* the names that are array indices, in ascending order
IndicesAscending(names) ==
    CHOOSE s \in Arrangements({names[i] : i \in {j \in 1..Len(names) : IsArrayIndex(names[j])}},
                              Len(names) - Len(SelectSeq(names, NotArrayIndex))) :
        \A i, j \in 1..Len(s) : i < j => DigitsValue(s[i]) < DigitsValue(s[j])
\* the order in which an object enumerates keys created in the order `names`
OwnKeyOrder(names) == IndicesAscending(names) \o SelectSeq(names, NotArrayIndex)

C5_LiteralUnionIsEnum ==
    (/\ pc # "ready"
     /\ IsUnionDescriptor(type)
     /\ Unannotated(type)
     /\ \A i \in 1..Len(type.types) : LiteralMember(type.types[i])) =>
        /\ Returned
        /\ DOMAIN outcome.schema = {"enum"}
        /\ outcome.schema["enum"] = [i \in 1..Len(type.types) |-> LiteralValue(type.types[i])]

C5_Witness ==
    /\ Returned
    /\ type = UnionOf(<<StringLiteral("b"), NumberLiteral(1, "1"), TrueType>>, Undefined)
    /\ outcome.schema["enum"] = <<JStr("b"), JNum(1, 0), JBool(TRUE)>>

\* C6: compiling a union one of whose members is no string, number or
\* boolean literal throws the complex-union Error, whether or not the union
\* is enum-like.
C6_ComplexUnionThrows ==
    (/\ pc # "ready"
     /\ IsUnionDescriptor(type)
     /\ \E i \in 1..Len(type.types) : ~LiteralMember(type.types[i])) =>
        /\ Threw
        /\ outcome.error = ComplexUnionMessage

OnlyType(node, t) == DOMAIN node = {"type"} /\ node["type"] = t
TypeAndConst(node, t, v) ==
    DOMAIN node = {"type", "const"} /\ node["type"] = t /\ node["const"] = v

\* C7: without annotations, string, number, boolean and null compile to a
\* node holding that type and nothing else, a string or number literal to
\* its type and its value as const, a boolean literal to boolean and the
\* const that is true iff the type is rendered as 'true'.
C7_PrimitivesAndLiterals ==
    (pc # "ready" /\ Unannotated(type)) =>
        /\ type.flags = {"String"} => Returned /\ OnlyType(outcome.schema, "string")
        /\ type.flags = {"Number"} => Returned /\ OnlyType(outcome.schema, "number")
        /\ "Boolean" \in type.flags => Returned /\ OnlyType(outcome.schema, "boolean")
        /\ type.flags = {"Null"} => Returned /\ OnlyType(outcome.schema, "null")
        /\ "StringLiteral" \in type.flags =>
               Returned /\ TypeAndConst(outcome.schema, "string", type.value)
        /\ "NumberLiteral" \in type.flags =>
               Returned /\ TypeAndConst(outcome.schema, "number", type.value)
        /\ type.flags = {"BooleanLiteral"} =>
               /\ Returned
               /\ TypeAndConst(outcome.schema, "boolean", JBool(type.typeString = "true"))

C7_Witness ==
    /\ Returned
    /\ type = FalseType
    /\ outcome.schema["const"] = JBool(FALSE)

\* the element descriptor of an array-like descriptor, if it is resolvable
Resolvable(t) ==
    \/ t.typeArguments # <<>> /\ Len(t.typeArguments[1]) > 0
    \/ t.typeArguments = <<>> /\ t.resolvedTypeArguments # <<>>
           /\ Len(t.resolvedTypeArguments[1]) > 0
ElementOf(t) ==
    IF t.typeArguments # <<>> THEN t.typeArguments[1][1] ELSE t.resolvedTypeArguments[1][1]

\* the outcome for an array whose element compiles to `element`
ArrayOutcome(element) ==
    IF element.ok
    THEN /\ Returned
         /\ outcome.schema["type"] = "array"
         /\ "items" \in DOMAIN outcome.schema
         /\ outcome.schema["items"] = element.schema
    ELSE Threw /\ outcome.error = element.error

\* C8: an array-like descriptor compiles to a node of type array whose
\* `items` is what its element compiles to on its own, and is absent when
\* the element is not resolvable; if the element fails to compile, so does
\* the array.
C8_ArrayItems ==
    (pc # "ready" /\ IsArrayLike(type)) =>
        IF Resolvable(type)
        THEN ArrayOutcome(compile(ElementOf(type)))
        ELSE /\ Returned
             /\ outcome.schema["type"] = "array"
             /\ "items" \notin DOMAIN outcome.schema

\* an array of Person: its items hold Person's own description
C8_Witness ==
    /\ Returned
    /\ type = ArrayOf(Person)
    /\ outcome.schema["items"]["description"] = "A person"
    /\ outcome.schema["items"]["required"] = <<"name">>

\* the JSON-parsed text when the text is valid JSON, the raw text otherwise
ParsedOrRawText(text) ==
    IF JSONparse(text).ok THEN JSONparse(text).value ELSE JStr(text)

C10_DefaultParsedOrRaw ==
    (pc \in {"utils", "index"} /\ "default" \in DOMAIN tags) =>
        /\ "default" \in DOMAIN applied
        /\ applied["default"] = ParsedOrRawText(tags["default"])

\* an empty default on an enum node
C10_Witness ==
    /\ pc = "utils"
    /\ "enum" \in DOMAIN schema
    /\ "default" \in DOMAIN tags
    /\ tags["default"] = ""
    /\ applied["default"] = JStr("")

\* the tag's text read as a number, if the map holds the tag and it reads as one
Parseable(k) == k \in DOMAIN tags /\ parseFloat(tags[k]) # NaN

\* C11: on a node of type number a tag set holding `integer` makes the type
\* integer and every range tag of the set that reads as a number is kept;
\* range tags still take effect on a node that is an integer already; on a
\* node of any other type `integer` leaves the type as it was.
C11_IntegerAfterRange ==
    pc \in {"utils", "index"} =>
        /\ (TypeIs(schema, "number") /\ "integer" \in DOMAIN tags) =>
               /\ applied["type"] = "integer"
               /\ \A k \in {"minimum", "maximum", "multipleOf"} :
                      Parseable(k) => k \in DOMAIN applied /\ applied[k] = parseFloat(tags[k])
        /\ TypeIs(schema, "integer") =>
               /\ applied["type"] = "integer"
               /\ \A k \in {"minimum", "maximum", "multipleOf"} :
                      Parseable(k) => k \in DOMAIN applied /\ applied[k] = parseFloat(tags[k])
        /\ ("integer" \in DOMAIN tags
               /\ ~(TypeIs(schema, "number") \/ TypeIs(schema, "integer"))) => SameAt("type")

\* a descriptor no classification rule matches
Unclassified(t) ==
    /\ t.flags \cap {"String", "StringLiteral", "Number", "NumberLiteral", "Boolean",
                     "BooleanLiteral", "Null", "Undefined", "Union", "Object",
                     "Intersection"} = {}
    /\ ~t.isArrayType
    /\ ~t.isTupleType

\* C12: compiling a tuple, an intersection, or a descriptor no rule matches
\* throws and returns no node: the tuple and the intersection their own
\* Error, the unmatched descriptor 'Unsupported type: ' followed by the name
\* the type model renders it with.
C12_UnsupportedTypesThrow ==
    pc # "ready" =>
        /\ (type.flags = {"Object"} /\ type.isTupleType /\ ~type.isArrayType) =>
               Threw /\ outcome.error = "Tuple types are not supported."
        /\ type.flags = {"Intersection"} =>
               Threw /\ outcome.error = "Intersection types are not supported."
        /\ Unclassified(type) =>
               Threw /\ outcome.error = "Unsupported type: " \o type.typeString

\* a computed enum member: enum-like, but no union and no literal
C12_Witness ==
    /\ Threw
    /\ type = ComputedEnumMember("C")
    /\ outcome.error = "Unsupported type: E.C"

RECURSIVE Nested(_)
Nested(t) ==
    IF IsArrayLike(t) /\ Resolvable(t)
    THEN {ElementOf(t)} \cup Nested(ElementOf(t))
    ELSE IF IsStruct(t)
    THEN UNION {{MemberType(t.properties[i])} \cup Nested(MemberType(t.properties[i])) :
                    i \in 1..Len(t.properties)}
    ELSE {}

\* the node holds, for the array's element and for each member of the
\* struct, the finalized node of its type
Complete(t, node) ==
    /\ (IsArrayLike(t) /\ Resolvable(t)) =>
           "items" \in DOMAIN node /\ node["items"] = compile(ElementOf(t)).schema
    /\ IsStruct(t) =>
           \A i \in 1..Len(t.properties) :
               /\ ObjectHas(PropertiesOf(node), t.properties[i].name)
               /\ ObjectGet(PropertiesOf(node), t.properties[i].name)
                      = PropertySchema(compile(MemberType(t.properties[i])).schema,
                                       t.properties[i])

\* C14: a call of compile either returns a node that holds the finalized
\* node of every nested descriptor, or throws and hands over no node; it
\* throws whenever a descriptor nested at any depth fails to compile.
C14_CompleteNodeOrError ==
    pc # "ready" =>
        /\ outcome.ok => Complete(type, outcome.schema) /\ outcome.error = ""
        /\ ~outcome.ok => outcome.schema = <<>> /\ outcome.error # ""
        /\ (\E n \in Nested(type) : ~compile(n).ok) => ~outcome.ok

\* a struct whose third member is a tuple, after two members that compile
C14_Witness ==
    /\ Threw
    /\ type = Team
    /\ outcome.error = "Tuple types are not supported."
    /\ outcome.schema = <<>>

\* the member is tagged `ignore` and its type on its own fails to compile
IgnoredUnsupported(p) == HasIgnore(p) /\ ~compile(MemberType(p)).ok
\* the member is passed without an Error: skipped, or compiled
Passed(p) ==
    \/ HasIgnore(p) /\ OptionalMember(p)
    \/ ~HasIgnore(p) /\ compile(MemberType(p)).ok

\* C15: the type of a member tagged `ignore` is never compiled: a struct
\* whose only members of unsupported type are optional and tagged `ignore`
\* compiles, and a required member tagged `ignore` whose type is unsupported
\* makes compile throw 'Cannot ignore required property: <name>', members
\* before it having passed.
C15_IgnoreBeforeCompile ==
    (pc # "ready" /\ IsStruct(type)) =>
        /\ (/\ \E i \in 1..Len(type.properties) : IgnoredUnsupported(type.properties[i])
            /\ \A i \in 1..Len(type.properties) : Passed(type.properties[i])) => Returned
        /\ \A i \in 1..Len(type.properties) :
               (/\ IgnoredUnsupported(type.properties[i])
                /\ RequiredMember(type.properties[i])
                /\ \A j \in 1..(i - 1) : Passed(type.properties[j])) =>
                   /\ Threw
                   /\ outcome.error = IgnoreConflictMessage(type.properties[i].name)

Recognized ==
    {"minimum", "maximum", "multipleOf", "integer", "minLength", "maxLength",
     "pattern", "format", "minItems", "maxItems", "default"}
Numeric(node) == TypeIs(node, "number") \/ TypeIs(node, "integer")
IsNumber(mt, k) == k \in DOMAIN mt /\ parseFloat(mt[k]) # NaN
IsInteger(mt, k) == k \in DOMAIN mt /\ parseInt(mt[k]) # NaN

\* the keys the member's tags mt and description d write on the node of its type
Written(node, mt, d) ==
    (IF d # "" THEN {"description"} ELSE {})
        \cup (IF "default" \in DOMAIN mt THEN {"default"} ELSE {})
        \cup {"x-" \o n : n \in DOMAIN mt \ Recognized}
        \cup {k \in {"minimum", "maximum", "multipleOf"} : Numeric(node) /\ IsNumber(mt, k)}
        \cup (IF Numeric(node) /\ "integer" \in DOMAIN mt THEN {"type"} ELSE {})
        \cup {k \in {"minLength", "maxLength"} : TypeIs(node, "string") /\ IsInteger(mt, k)}
        \cup {k \in {"pattern", "format"} : TypeIs(node, "string") /\ k \in DOMAIN mt}
        \cup {k \in {"minItems", "maxItems"} : TypeIs(node, "array") /\ IsInteger(mt, k)}
\* the value the member's tags and description give the key k they write
MemberLevel(k, mt, d) ==
    IF k = "description" THEN d
    ELSE IF k = "type" THEN "integer"
    ELSE IF k = "default" THEN ParsedOrRawText(mt[k])
    ELSE IF k \in {"minimum", "maximum", "multipleOf"} THEN parseFloat(mt[k])
    ELSE IF k \in {"minLength", "maxLength", "minItems", "maxItems"} THEN parseInt(mt[k])
    ELSE IF k \in {"pattern", "format"} THEN mt[k]
    ELSE ParsedOrRawText(mt[SubSeq(k, 3, Len(k))])

\* child is the node typeNode with the member's keys written over it
MemberOverType(child, typeNode, mt, d) ==
    /\ DOMAIN child = DOMAIN typeNode \cup Written(typeNode, mt, d)
    /\ \A k \in Written(typeNode, mt, d) : child[k] = MemberLevel(k, mt, d)
    /\ \A k \in DOMAIN typeNode \ Written(typeNode, mt, d) : child[k] = typeNode[k]

\* C16: in the node of a struct, the node of each member is the node its
\* type compiles to, with the member's own tags and description applied
\* after: a key both write holds the member's value, a key only the type
\* wrote holds the type's.
C16_MemberTagsOverTypeTags ==
    (Returned /\ IsStruct(type)) =>
        \A i \in 1..Len(type.properties) :
            MemberOverType(ObjectGet(PropertiesOf(outcome.schema), type.properties[i].name),
                           compile(MemberType(type.properties[i])).schema,
                           extractJSDocTags(<<type.properties[i]>>),
                           Join(type.properties[i].documentation))

\* a member tagged minimum 5 of a type declared with minimum 10 and integer
C16_Witness ==
    /\ Returned
    /\ type \in AnnotatedMemberTypes
    /\ MemberType(type.properties[1]).symbol = <<RangedSymbol>>
    /\ Len(type.properties[1].jsDocTags) = 3
    /\ compile(MemberType(type.properties[1])).schema["minimum"] = JNum(10, 0)
    /\ PropertiesOf(outcome.schema)[1].value["minimum"] = JNum(5, 0)
    /\ PropertiesOf(outcome.schema)[1].value["type"] = "integer"
    /\ PropertiesOf(outcome.schema)[1].value["description"] = "Overridden"

\* the description handed to applyJSDocTags, '' for none
DescriptionText == IF description = <<>> THEN "" ELSE description[1]

\* C17: whatever the node and the tag map, applyJSDocTags ends with a node:
\* a number or length tag whose text does not read as a number leaves its
\* keyword as it was, and everything else the tag map and the description
\* have to write is written.
C17_ApplyNeverFails ==
    pc = "utils" =>
        /\ \A k \in {"minimum", "maximum", "multipleOf"} :
               (k \in DOMAIN tags /\ ~IsNumber(tags, k)) => SameAt(k)
        /\ \A k \in {"minLength", "maxLength", "minItems", "maxItems"} :
               (k \in DOMAIN tags /\ ~IsInteger(tags, k)) => SameAt(k)
        /\ MemberOverType(applied, schema, tags, DescriptionText)

\* a number node, a minimum that is no number beside a default that is no JSON
C17_Witness ==
    /\ pc = "utils"
    /\ schema = Typed("number")
    /\ DOMAIN tags = {"minimum", "default"}
    /\ tags["minimum"] = "abc"
    /\ tags["default"] = "abc"
    /\ DOMAIN applied = {"type", "default"}
    /\ applied["default"] = JStr("abc")

\* the node and the nodes nested in it, at any depth
RECURSIVE NodesIn(_)
NodesIn(node) ==
    {node}
        \cup (IF "items" \in DOMAIN node THEN NodesIn(node["items"]) ELSE {})
        \cup (IF "properties" \in DOMAIN node
              THEN UNION {NodesIn(node["properties"][i].value) :
                              i \in 1..Len(node["properties"])}
              ELSE {})

\* C18: in a node compile returns, and in every node nested in it, `required`
\* is absent or not empty; it is absent from the node of a struct all of
\* whose members are optional.
C18_RequiredAbsentOrNonEmpty ==
    Returned =>
        /\ \A n \in NodesIn(outcome.schema) :
               "required" \in DOMAIN n => Len(n["required"]) > 0
        /\ (IsStruct(type) /\ \A i \in 1..Len(type.properties) :
                                 OptionalMember(type.properties[i])) =>
               "required" \notin DOMAIN outcome.schema

\* a struct of two optional members, one of them tagged `ignore`
C18_Witness ==
    /\ Returned
    /\ IsStruct(type)
    /\ Len(type.properties) = 2
    /\ \A i \in 1..2 : OptionalMember(type.properties[i])
    /\ HasIgnore(type.properties[1])
    /\ "required" \notin DOMAIN outcome.schema
    /\ Len(PropertiesOf(outcome.schema)) = 2

\* C19: in a node compile returns, and in every node nested in it, `enum`
\* and `const` are never both present, a node with `enum` has no `type`,
\* and a node with `const` has a `type`.
C19_ShapeInvariant ==
    Returned =>
        \A n \in NodesIn(outcome.schema) :
            /\ ~("enum" \in DOMAIN n /\ "const" \in DOMAIN n)
            /\ "enum" \in DOMAIN n => "type" \notin DOMAIN n
            /\ "const" \in DOMAIN n => "type" \in DOMAIN n

\* an enum declared with the tags minimum and integer
C19_Witness ==
    /\ Returned
    /\ "EnumLiteral" \in type.flags
    /\ type.symbol = <<RangedSymbol>>
    /\ DOMAIN outcome.schema = {"enum"}

\* the depth of the type graph: a descriptor, its array element or its
\* members, and theirs in turn
RECURSIVE TypeDepth(_)
TypeDepth(t) ==
    IF IsArrayLike(t) /\ Resolvable(t) THEN 1 + TypeDepth(ElementOf(t))
    ELSE IF IsStruct(t) /\ Len(t.properties) > 0
    THEN 1 + (CHOOSE d \in {TypeDepth(MemberType(t.properties[i])) : i \in 1..Len(t.properties)} :
                  \A i \in 1..Len(t.properties) : TypeDepth(MemberType(t.properties[i])) <= d)
    ELSE 1

\* C20: a call of compile ends, by returning where compile returns a node
\* and by throwing where it throws, and at no time are more calls of compile
\* under way than the type graph is deep.
C20_TerminatesWithinDepth ==
    /\ <>(pc \in {"returned", "threw"})
    /\ [](Len(stack) <= TypeDepth(type))
    /\ [](pc \in {"returned", "threw"} => (pc = "returned") = compile(type).ok)

\* an array of Team: five calls under way, down to the name of a Person
C20_Witness ==
    /\ pc = "running"
    /\ type = ArrayOf(Team)
    /\ Len(stack) = 5
    /\ TypeDepth(type) = 5

\* the types a type holds: the element of an array, the types of the
\* properties of an interface
Parts(t) ==
    IF IsArrayLike(t) /\ Resolvable(t) THEN {ElementOf(t)}
    ELSE IF IsStruct(t) THEN {MemberType(t.properties[i]) : i \in 1..Len(t.properties)}
    ELSE {}
\* the interfaces a type refers to, directly or by the element of an array
RECURSIVE Refers(_)
Refers(t) ==
    UNION {IF IsReference(part) THEN {part.ref} ELSE Refers(part) : part \in Parts(t)}
\* the interfaces reached from the interfaces `names` in at most k steps
RECURSIVE Reached(_, _, _)
Reached(table, names, k) ==
    IF k = 0 THEN names
    ELSE Reached(table, names \cup UNION {Refers(table[name]) : name \in names}, k - 1)
\* the interface compiled is reachable from itself
SelfReachable ==
    "T" \in Reached(declared, Refers(declared["T"]), Cardinality(DOMAIN declared))

\* What compile(t) comes to first, going through the elements and properties
\* in the order declared and depth-first: "cycle", an interface whose
\* compilation is under way (its name is in `path`); "throws", a type compile
\* throws on; or "returns", neither.
RECURSIVE ComesTo(_, _, _)
RECURSIVE ComesToFrom(_, _, _, _)
PartComesTo(table, part, path) ==
    IF IsReference(part)
    THEN IF part.ref \in path THEN "cycle"
         ELSE ComesTo(table, table[part.ref], path \cup {part.ref})
    ELSE ComesTo(table, part, path)
ComesTo(table, t, path) ==
    IF IsArrayLike(t) /\ Resolvable(t) THEN PartComesTo(table, ElementOf(t), path)
    ELSE IF IsStruct(t) THEN ComesToFrom(table, t, 1, path)
    ELSE IF compile(t).ok THEN "returns" ELSE "throws"
ComesToFrom(table, t, i, path) ==
    IF i > Len(t.properties) THEN "returns"
    ELSE IF PartComesTo(table, MemberType(t.properties[i]), path) = "returns"
    THEN ComesToFrom(table, t, i + 1, path)
    ELSE PartComesTo(table, MemberType(t.properties[i]), path)

\* C21 as stated: when the interface compiled is reachable from itself by
\* properties and array elements, compile neither returns nor throws, and the
\* calls under way grow in number as far as the stack holds.
C21_SelfReferenceRecursesForever ==
    /\ [](SelfReachable => pc \notin {"returned", "threw"})
    /\ (SelfReachable /\ pc = "ready") ~> (Len(stack) = MaxDepth)

\* C21: when compile, going through the properties and array elements in the
\* order declared, comes to an interface whose compilation is under way
\* before it comes to a type it throws on, it neither returns nor throws, and
\* the calls under way grow in number as far as the stack holds; when it
\* comes to a type it throws on first, it throws.
C21_ReachedCycleRecursesForever ==
    /\ [](ComesTo(declared, type, {"T"}) = "cycle" => pc \notin {"returned", "threw"})
    /\ (ComesTo(declared, type, {"T"}) = "cycle" /\ pc = "ready") ~> (Len(stack) = MaxDepth)
    /\ (ComesTo(declared, type, {"T"}) = "throws" /\ pc = "ready") ~> (pc = "threw")

\* interface T { a: string; b: U[] }  interface U { a: T }: the calls for
\* T, U[], U, T, ... fill the stack
C21_Witness ==
    /\ pc = "running"
    /\ Len(stack) = MaxDepth
    /\ declared["T"] = Referring("T", <<StringType, ArrayOf(Reference("U"))>>)
    /\ declared["U"] = Referring("U", <<Reference("T")>>)
    /\ stack[MaxDepth].type = stack[MaxDepth - 3].type

\* the first property, in the order declared, whose type compile throws on
FirstFailing(t) ==
    CHOOSE i \in 1..Len(t.properties) :
        /\ ~compile(MemberType(t.properties[i])).ok
        /\ \A j \in 1..(i - 1) : compile(MemberType(t.properties[j])).ok
\* a call of compile for an interface begins the call for its i-th property
BeginsMember(frame, begun, i) ==
    /\ i = frame.next
    /\ begun.type = MemberType(frame.type.properties[i])
    /\ begun.next = 1
    /\ \A j \in 1..(i - 1) : compile(MemberType(frame.type.properties[j])).ok

\* C22: a call of compile for an interface begins the calls for its
\* properties one at a time in the order declared, each after the calls for
\* the properties before it have returned, so none after a call that threw;
\* and the Error compile throws for the interface is the Error of the first
\* property, in the order declared, whose type compile throws on.
C22_FirstFailureInDeclarationOrder ==
    /\ [][(/\ Len(stack) > 0
           /\ Len(stack') = Len(stack) + 1
           /\ IsStruct(stack[Len(stack)].type))
          => /\ SubSeq(stack', 1, Len(stack)) = stack
             /\ \E i \in 1..Len(stack[Len(stack)].type.properties) :
                    BeginsMember(stack[Len(stack)], stack'[Len(stack')], i)]_vars
    /\ []((pc = "threw" /\ IsStruct(type))
          => compile(type).error = compile(MemberType(type.properties[FirstFailing(type)])).error)

\* interface T { a: { inner: A & B }; b: [string, number] }: compile threw
\* the Error of the intersection in a, and made no call for b
C22_Witness ==
    /\ pc = "threw"
    /\ type \in FailingMemberTypes
    /\ MemberType(type.properties[1]).flags = {"Object"}
    /\ MemberType(type.properties[2]) = TupleType
    /\ compile(type).error = "Intersection types are not supported."

\* the keywords each group of tags writes
NumberGroup == {"minimum", "maximum", "multipleOf"}
StringGroup == {"minLength", "maxLength", "pattern", "format"}
ArrayGroup == {"minItems", "maxItems"}
\* the call changed a keyword of the group
TookEffect(group) == \E k \in group : ~SameAt(k)

DeclaredOn(t) == t.properties[1].jsDocTags
\* the last tag of the name
LastOf(jsDocTags, name) ==
    CHOOSE i \in 1..Len(jsDocTags) :
        /\ jsDocTags[i].name = name
        /\ \A j \in (i + 1)..Len(jsDocTags) : jsDocTags[j].name # name
\* the text of a tag: its parts with nothing between them, '' when it has none
Flattened(parts) ==
    IF Len(parts) = 0 THEN ""
    ELSE IF Len(parts) = 1 THEN parts[1]
    ELSE parts[1] \o parts[2]
LastText(jsDocTags, name) == Flattened(jsDocTags[LastOf(jsDocTags, name)].text)

\* C24: the map extracted from a symbol holds the names of the symbol's tags
\* and no other, each with the text of the last tag of that name, '' for a
\* tag with no text; and the minimum applied to the node is the number the
\* last `minimum` tag reads as.
C24_LastTagOfNameWins ==
    pc \in {"extracted", "applied"} =>
        /\ DOMAIN tags = {DeclaredOn(type)[i].name : i \in 1..Len(DeclaredOn(type))}
        /\ \A name \in DOMAIN tags : tags[name] = LastText(DeclaredOn(type), name)
        /\ \A i \in 1..Len(DeclaredOn(type)) :
               (DeclaredOn(type)[i].text = <<>>
                    /\ LastOf(DeclaredOn(type), DeclaredOn(type)[i].name) = i)
                   => tags[DeclaredOn(type)[i].name] = ""
        /\ (pc = "applied" /\ "minimum" \in DOMAIN tags
                /\ parseFloat(LastText(DeclaredOn(type), "minimum")) # NaN)
               => /\ "minimum" \in DOMAIN applied
                  /\ applied["minimum"] = parseFloat(LastText(DeclaredOn(type), "minimum"))

\* /** @minimum 5 @minimum 10 */ value: number, the 10 in two parts: the map
\* holds minimum -> "10" and the node takes the minimum 10
C24_Witness ==
    /\ pc = "applied"
    /\ Len(DeclaredOn(type)) = 2
    /\ DeclaredOn(type)[1] = [name |-> "minimum", text |-> <<"5">>]
    /\ DeclaredOn(type)[2] = [name |-> "minimum", text |-> <<"1", "0">>]
    /\ tags = MapSet(EmptyMap, "minimum", "10")
    /\ applied["minimum"] = parseFloat("10")
====
